---- MODULE Spec2Model ----
(***************************************************************************)
(* spark-id: the SecureId generator, validator and parser of               *)
(* src/src/index.ts together with the default table of the type module.    *)
(*                                                                         *)
(* JavaScript strings are TLA+ strings (Len, SubSeq and \o act on them).   *)
(* An optional value is <<>> (undefined) or <<v>>.  A call outcome is      *)
(* [ok |-> TRUE, val |-> v] for a return and [ok |-> FALSE, err |-> e]     *)
(* for a throw.                                                            *)
(***************************************************************************)
EXTENDS Integers, Sequences, FiniteSets, TLC

VARIABLES globalConfig, inp, out

vars == <<globalConfig, inp, out>>

-----------------------------------------------------------------------------
(* Bounds of the model.                                                    *)

\* longest byte buffer handed to the encoder on its own
MaxBytes == 6
\* largest entropyBits value enumerated in per-call configurations
MaxEntropyBits == 17
\* longest candidate string enumerated for validation and parsing
MaxLen == 4

-----------------------------------------------------------------------------
(* Strings.                                                                *)

LowerLetters == "abcdefghijklmnopqrstuvwxyz"
UpperLetters == "ABCDEFGHIJKLMNOPQRSTUVWXYZ"
Digits == "0123456789"

charAt(s, i) == SubSeq(s, i + 1, i + 1)

CharsOf(s) == {charAt(s, i) : i \in 0..(Len(s) - 1)}

\* the lower-case letter of each upper-case letter, and the converse
LowerOf ==
  [c \in CharsOf(UpperLetters) |->
     charAt(LowerLetters, CHOOSE i \in 0..25 : charAt(UpperLetters, i) = c)]

UpperOf ==
  [c \in CharsOf(LowerLetters) |->
     charAt(UpperLetters, CHOOSE i \in 0..25 : charAt(LowerLetters, i) = c)]

lowerChar(c) == IF c \in DOMAIN LowerOf THEN LowerOf[c] ELSE c

upperChar(c) == IF c \in DOMAIN UpperOf THEN UpperOf[c] ELSE c

RECURSIVE toLowerCase(_)
toLowerCase(s) ==
  IF s = "" THEN ""
  ELSE lowerChar(charAt(s, 0)) \o toLowerCase(SubSeq(s, 2, Len(s)))

RECURSIVE toUpperCase(_)
toUpperCase(s) ==
  IF s = "" THEN ""
  ELSE upperChar(charAt(s, 0)) \o toUpperCase(SubSeq(s, 2, Len(s)))

\* String.prototype.includes
includes(s, sub) ==
  \E i \in 1..(Len(s) - Len(sub) + 1) : SubSeq(s, i, i + Len(sub) - 1) = sub

\* first position (1-based) at which sep occurs in s, 0 when it does not
firstMatch(s, sep) ==
  LET hits == {i \in 1..(Len(s) - Len(sep) + 1) :
                 SubSeq(s, i, i + Len(sep) - 1) = sep}
  IN  IF hits = {} THEN 0
      ELSE CHOOSE i \in hits : \A j \in hits : i <= j

\* String.prototype.split with a string separator
RECURSIVE split(_, _)
split(s, sep) ==
  IF sep = "" THEN [i \in 1..Len(s) |-> SubSeq(s, i, i)]
  ELSE LET p == firstMatch(s, sep)
       IN  IF p = 0 THEN <<s>>
           ELSE <<SubSeq(s, 1, p - 1)>>
                  \o split(SubSeq(s, p + Len(sep), Len(s)), sep)

-----------------------------------------------------------------------------------------------------------------------------------------------------
(* 32-bit integers.  The operands and results of << >>> & | are 32-bit     *)
(* patterns, held here as the two's-complement integer in                  *)
(* -2^31 .. 2^31 - 1 with the same bits (\div and % round down, so         *)
(* v \div 2 is the arithmetic shift and v % 2 the lowest bit).             *)

MinInt32 == (-1073741824) * 2

\* v << n: bits 0..31-n move up by n, the bits above them are lost
Shl32(v, n) ==
  IF n = 0 THEN v
  ELSE LET low == v % (2 ^ (31 - n))
           top == (v \div (2 ^ (31 - n))) % 2
       IN  low * (2 ^ n) + top * MinInt32

\* v >>> n: zero-filling shift of the 32-bit pattern
Ushr32(v, n) ==
  IF n = 0 THEN v
  ELSE IF v >= 0 THEN v \div (2 ^ n)
  ELSE ((v - MinInt32) \div (2 ^ n)) + 2 ^ (31 - n)

\* a & m for a non-negative m
RECURSIVE And32(_, _)
And32(a, m) ==
  IF m = 0 THEN 0
  ELSE (a % 2) * (m % 2) + 2 * And32(a \div 2, m \div 2)

\* a | b for a non-negative b
RECURSIVE Or32(_, _)
Or32(a, b) ==
  IF b = 0 THEN a
  ELSE (IF (a % 2) + (b % 2) > 0 THEN 1 ELSE 0) + 2 * Or32(a \div 2, b \div 2)

-----
(* Outcomes and errors.                                                    *)

Return(v) == [ok |-> TRUE, val |-> v]
Throw(e) == [ok |-> FALSE, err |-> e]

SparkIdError(message, code) ==
  [name |-> "SparkIdError", code |-> code, message |-> message]

InvalidPrefixError(prefix) ==
  [name |-> "InvalidPrefixError", code |-> "INVALID_PREFIX",
   message |-> "Invalid prefix: \"" \o prefix
     \o "\". Prefix must contain only alphanumeric characters and underscores, and be between 1-20 characters."]

\* id is a JavaScript value [t |-> typeof, s |-> its string conversion]
InvalidIdError(id, reason) ==
  [name |-> "InvalidIdError", code |-> "INVALID_ID",
   message |-> "Invalid ID: \"" \o id.s \o "\". "
     \o (IF reason = "" THEN "ID format is not valid." ELSE reason)]

-----------------------------------------------------------------------------
(* Configuration.                                                          *)

DEFAULT_CONFIG ==
  [alphabet |-> <<"yvndrfg9ejkmcpqxwt2uwxsza345h769">>,
   entropyBits |-> <<72>>,
   length |-> <<>>,
   maxPrefixLength |-> <<20>>,
   separator |-> <<"_">>,
   case |-> <<"upper">>,
   encoding |-> <<"base32">>,
   timestamp |-> <<FALSE>>,
   machineId |-> <<>>]

\* no config argument, which reads like an object without keys
NoConfig == [k \in {} |-> <<>>]

\* obj?.[key] on an object that may lack the key
Lookup(obj, key) == IF key \in DOMAIN obj THEN obj[key] ELSE <<>>

\* a ?? b on optional values
Nullish(a, b) == IF a = <<>> THEN b ELSE a

\* { ...a, ...b }
Spread(a, b) ==
  [k \in (DOMAIN a) \cup (DOMAIN b) |-> IF k \in DOMAIN b THEN b[k] ELSE a[k]]

\* getConfigValue with the per-call config, when one is given, taking the
\* place of the global configuration as a whole
getConfigValueIn_swap(global, key, localConfig) ==
  IF DOMAIN localConfig # {}
  THEN Nullish(Lookup(localConfig, key), Lookup(DEFAULT_CONFIG, key))
  ELSE Nullish(Lookup(global, key), Lookup(DEFAULT_CONFIG, key))

\* getConfigValue without the fall back to the default table
getConfigValueIn_noDefault(global, key, localConfig) ==
  Nullish(Lookup(localConfig, key), Lookup(global, key))

\* getConfigValue against an explicit global object
getConfigValueIn(global, key, localConfig) ==
  Nullish(Lookup(localConfig, key),
          Nullish(Lookup(global, key), Lookup(DEFAULT_CONFIG, key)))

getConfigValue(key, localConfig) ==
  getConfigValueIn(globalConfig, key, localConfig)

\* getConfigValue(key, config) ?? fallback, as every caller writes it
configOr(key, localConfig, fallback) ==
  LET v == getConfigValue(key, localConfig)
  IN  IF v = <<>> THEN fallback ELSE v[1]

-----------------------------------------------------------------------------
(* Codec.                                                                  *)

\* encodeDrain with the group taken one bit too low (bits - 5 - 1 clipped at 0)
RECURSIVE encodeDrain_offByOne(_, _, _, _)
encodeDrain_offByOne(value, bits, result, alphabet) ==
  IF bits >= 5
  THEN encodeDrain_offByOne(value, bits - 5,
         result \o charAt(alphabet,
           And32(Ushr32(value, IF bits > 5 THEN bits - 6 ELSE 0), 31)),
         alphabet)
  ELSE [value |-> value, bits |-> bits, result |-> result]

\* the inner while loop: emit characters while at least 5 bits are pending
RECURSIVE encodeDrain(_, _, _, _)
encodeDrain(value, bits, result, alphabet) ==
  IF bits >= 5
  THEN encodeDrain(value, bits - 5,
         result \o charAt(alphabet, And32(Ushr32(value, bits - 5), 31)),
         alphabet)
  ELSE [value |-> value, bits |-> bits, result |-> result]

\* the for loop over the buffer, from index i (0-based)
RECURSIVE encodeLoop(_, _, _, _, _, _)
encodeLoop(buffer, i, value, bits, result, alphabet) ==
  IF i < Len(buffer)
  THEN LET v == Or32(Shl32(value, 8), buffer[i + 1])
           d == encodeDrain(v, bits + 8, result, alphabet)
       IN  encodeLoop(buffer, i + 1, d.value, d.bits, d.result, alphabet)
  ELSE [value |-> value, bits |-> bits, result |-> result]

base32Encode(buffer, alphabet) ==
  IF Len(alphabet) # 32
  THEN Throw(SparkIdError(
         "Alphabet must have exactly 32 characters for base32 encoding. Got "
           \o ToString(Len(alphabet)) \o " characters.",
         "INVALID_ALPHABET"))
  ELSE LET l == encodeLoop(buffer, 0, 0, 0, "", alphabet)
       IN  IF l.bits > 0
           THEN Return(l.result
                  \o charAt(alphabet, And32(Shl32(l.value, 5 - l.bits), 31)))
           ELSE Return(l.result)

-----------------------------------------------------------------------------
(* Identifier model.  A JavaScript value handed to parse, isValid or       *)
(* isValidRawId is [t |-> its typeof, s |-> its string conversion]; a      *)
(* prefix, and the id given to the constructor, is <<>> (undefined) or     *)
(* <<string>>.                                                             *)

JSString(s) == [t |-> "string", s |-> s]

\* PREFIX_REGEX = /^[a-zA-Z0-9_]+$/
PREFIX_REGEX_test(s) ==
  /\ Len(s) >= 1
  /\ \A i \in 0..(Len(s) - 1) :
       LET c == charAt(s, i)
       IN  includes(LowerLetters, c) \/ includes(UpperLetters, c)
             \/ includes(Digits, c) \/ c = "_"

isValidPrefix(prefix, config) ==
  LET maxPrefixLength == configOr("maxPrefixLength", config, 20)
  IN  IF Len(prefix) = 0 \/ Len(prefix) > maxPrefixLength
      THEN FALSE
      ELSE PREFIX_REGEX_test(prefix)

\* the switch on the case setting, applied to the encoded id and to the prefix
applyCase(caseSetting, s) ==
  CASE caseSetting = "lower" -> toLowerCase(s)
    [] caseSetting = "upper" -> toUpperCase(s)
    [] caseSetting = "mixed" -> s
    [] OTHER -> toUpperCase(s)

\* Math.ceil(entropyBits / 8)
bytesLength(config) == (configOr("entropyBits", config, 72) + 7) \div 8

\* bytes is what randomBytes(bytesLength) returned
generateRaw(config, bytes) ==
  LET alphabet == configOr("alphabet", config, "yvndrfg9ejkmcpqxwt2uwxsza345h769")
      caseSetting == configOr("case", config, "upper")
      encoded == base32Encode(bytes, alphabet)
  IN  IF ~encoded.ok THEN encoded
      ELSE Return(applyCase(caseSetting, encoded.val))

generate(prefix, config, bytes) ==
  IF prefix # <<>> /\ ~isValidPrefix(prefix[1], config)
  THEN Throw(InvalidPrefixError(prefix[1]))
  ELSE LET rawId == generateRaw(config, bytes)
           separator == configOr("separator", config, "_")
           caseSetting == configOr("case", config, "upper")
           formattedPrefix ==
             IF prefix # <<>> /\ prefix[1] # ""
             THEN <<applyCase(caseSetting, prefix[1])>> ELSE <<>>
       IN  IF ~rawId.ok THEN rawId
           ELSE IF formattedPrefix # <<>> /\ formattedPrefix[1] # ""
           THEN Return(formattedPrefix[1] \o separator \o rawId.val)
           ELSE Return(rawId.val)

\* the constructor joining prefix and id without the separator
SecureId_constructor_unjoined(id, prefix, config, bytes) ==
  IF prefix # <<>> /\ ~isValidPrefix(prefix[1], config)
  THEN Throw(InvalidPrefixError(prefix[1]))
  ELSE LET caseSetting == configOr("case", config, "upper")
           formattedPrefix ==
             IF prefix # <<>> /\ prefix[1] # ""
             THEN <<applyCase(caseSetting, prefix[1])>> ELSE <<>>
           thisId ==
             IF id # <<>> /\ id[1] # "" THEN Return(id[1])
             ELSE generateRaw(config, bytes)
       IN  IF ~thisId.ok THEN thisId
           ELSE Return([id |-> thisId.val,
                        prefix |-> formattedPrefix,
                        full |-> IF formattedPrefix # <<>>
                                 THEN formattedPrefix[1] \o thisId.val
                                 ELSE thisId.val])

\* new SecureId(id, prefix, config); bytes is used only when id is falsy
SecureId_constructor(id, prefix, config, bytes) ==
  IF prefix # <<>> /\ ~isValidPrefix(prefix[1], config)
  THEN Throw(InvalidPrefixError(prefix[1]))
  ELSE LET separator == configOr("separator", config, "_")
           caseSetting == configOr("case", config, "upper")
           formattedPrefix ==
             IF prefix # <<>> /\ prefix[1] # ""
             THEN <<applyCase(caseSetting, prefix[1])>> ELSE <<>>
           thisId ==
             IF id # <<>> /\ id[1] # "" THEN Return(id[1])
             ELSE generateRaw(config, bytes)
       IN  IF ~thisId.ok THEN thisId
           ELSE Return([id |-> thisId.val,
                        prefix |-> formattedPrefix,
                        full |-> IF formattedPrefix # <<>> /\ formattedPrefix[1] # ""
                                 THEN formattedPrefix[1] \o separator \o thisId.val
                                 ELSE thisId.val])

create(prefix, config, bytes) == SecureId_constructor(<<>>, prefix, config, bytes)

\* isValidRawId without the alphabet check
isValidRawId_lengthOnly(rawId, config) ==
  IF rawId.t # "string" \/ rawId.s = "" THEN FALSE
  ELSE LET entropyBits == configOr("entropyBits", config, 72)
           minLength == entropyBits \div 5
           maxLength == (entropyBits + 4) \div 5
       IN  ~(Len(rawId.s) < minLength \/ Len(rawId.s) > maxLength)

isValidRawId(rawId, config) ==
  IF rawId.t # "string" \/ rawId.s = "" THEN FALSE
  ELSE LET alphabet == configOr("alphabet", config, "yvndrfg9ejkmcpqxwt2uwxsza345h769")
           entropyBits == configOr("entropyBits", config, 72)
           minLength == entropyBits \div 5
           maxLength == (entropyBits + 4) \div 5
       IN  IF Len(rawId.s) < minLength \/ Len(rawId.s) > maxLength THEN FALSE
           ELSE \A i \in 0..(Len(rawId.s) - 1) :
                  includes(alphabet, toLowerCase(charAt(rawId.s, i)))

\* a copy of parseParts that also holds the prefix part to isValidPrefix
parseParts_prefixChecked(idString, parts, config) ==
  IF Len(parts) = 1
  THEN IF ~isValidRawId(JSString(parts[1]), config)
       THEN Throw(InvalidIdError(idString, "Invalid ID format"))
       ELSE Return([id |-> parts[1], full |-> parts[1]])
  ELSE IF Len(parts) = 2
  THEN IF ~isValidRawId(JSString(parts[2]), config) \/ ~isValidPrefix(parts[1], config)
       THEN Throw(InvalidIdError(idString, "Invalid ID format"))
       ELSE Return([prefix |-> parts[1], id |-> parts[2], full |-> idString.s])
  ELSE Throw(InvalidIdError(idString, "ID contains too many separators"))

\* a copy of parseParts that takes the first two of three or more parts
parseParts_firstTwo(idString, parts, config) ==
  IF Len(parts) = 1
  THEN IF ~isValidRawId(JSString(parts[1]), config)
       THEN Throw(InvalidIdError(idString, "Invalid ID format"))
       ELSE Return([id |-> parts[1], full |-> parts[1]])
  ELSE IF ~isValidRawId(JSString(parts[2]), config)
       THEN Throw(InvalidIdError(idString, "Invalid ID format"))
       ELSE Return([prefix |-> parts[1], id |-> parts[2], full |-> idString.s])

\* parse from the split on: the branches on parts.length
parseParts(idString, parts, config) ==
  IF Len(parts) = 1
  THEN IF ~isValidRawId(JSString(parts[1]), config)
       THEN Throw(InvalidIdError(idString, "Invalid ID format"))
       ELSE Return([id |-> parts[1], full |-> parts[1]])
  ELSE IF Len(parts) = 2
  THEN IF ~isValidRawId(JSString(parts[2]), config)
       THEN Throw(InvalidIdError(idString, "Invalid ID format"))
       ELSE Return([prefix |-> parts[1], id |-> parts[2], full |-> idString.s])
  ELSE Throw(InvalidIdError(idString, "ID contains too many separators"))

parse(idString, config) ==
  IF idString.t # "string"
  THEN Throw(InvalidIdError(idString, "ID must be a string"))
  ELSE IF Len(idString.s) = 0
  THEN Throw(InvalidIdError(idString, "ID cannot be empty"))
  ELSE LET separator == configOr("separator", config, "_")
       IN  parseParts(idString, split(idString.s, separator), config)

\* isValid without the try/catch
isValid_noCatch(idString, config) ==
  LET parsed == parse(idString, config)
  IN  IF ~parsed.ok THEN parsed
      ELSE Return(isValidRawId(JSString(parsed.val.id), config))

\* try { ... } catch { return false }
isValid(idString, config) ==
  LET parsed == parse(idString, config)
  IN  IF ~parsed.ok THEN Return(FALSE)
      ELSE Return(isValidRawId(JSString(parsed.val.id), config))

\* generateMultiple that lets a count of 0 through
generateMultiple_zero(count, prefix, config, rnds) ==
  IF count < 0
  THEN Throw(SparkIdError("Count must be greater than 0", "INVALID_COUNT"))
  ELSE IF count > 1000
  THEN Throw(SparkIdError("Count cannot exceed 1000", "COUNT_TOO_LARGE"))
  ELSE LET each == [i \in 1..count |-> generate(prefix, config, rnds[i])]
           failed == {i \in 1..count : ~each[i].ok}
       IN  IF failed # {}
           THEN each[CHOOSE i \in failed : \A j \in 1..(i - 1) : j \notin failed]
           ELSE Return([i \in 1..count |-> each[i].val])

\* Array.from({ length: count }, () => generate(prefix, config)): the
\* outcome of each of the count calls, rnds[i] being what the i-th draws; the
\* first call that throws ends the whole
generateMultiple(count, prefix, config, rnds) ==
  IF count <= 0
  THEN Throw(SparkIdError("Count must be greater than 0", "INVALID_COUNT"))
  ELSE IF count > 1000
  THEN Throw(SparkIdError("Count cannot exceed 1000", "COUNT_TOO_LARGE"))
  ELSE LET each == [i \in 1..count |-> generate(prefix, config, rnds[i])]
           failed == {i \in 1..count : ~each[i].ok}
       IN  IF failed # {}
           THEN each[CHOOSE i \in failed : \A j \in 1..(i - 1) : j \notin failed]
           ELSE Return([i \in 1..count |-> each[i].val])

\* the while condition of generateUnique, on the loop's state l
uniqueContinues(l, count) ==
  l.ok /\ Cardinality(l.val.ids) < count /\ l.val.attempts < count * 10

\* one round of the while loop: the body when the condition holds, else
\* nothing
uniqueStep(l, count, prefix, config, rnds) ==
  IF uniqueContinues(l, count)
  THEN LET id == generate(prefix, config, rnds[l.val.attempts + 1])
       IN  IF ~id.ok THEN id
           ELSE Return([ids |-> l.val.ids \cup {id.val},
                        attempts |-> l.val.attempts + 1])
  ELSE l

\* n rounds one after the other, split in halves
RECURSIVE uniqueSteps(_, _, _, _, _, _)
uniqueSteps(l, n, count, prefix, config, rnds) ==
  IF n <= 0 \/ ~uniqueContinues(l, count) THEN l
  ELSE IF n = 1 THEN uniqueStep(l, count, prefix, config, rnds)
  ELSE uniqueSteps(uniqueSteps(l, n \div 2, count, prefix, config, rnds),
                   n - (n \div 2), count, prefix, config, rnds)

\* the while loop of generateUnique, which ends within count * 10 - attempts
\* rounds
uniqueLoop(ids, attempts, count, prefix, config, rnds) ==
  uniqueSteps(Return([ids |-> ids, attempts |-> attempts]),
              count * 10 - attempts, count, prefix, config, rnds)

\* generateUnique without the check of ids.size after the loop
generateUnique_noCheck(count, prefix, config, rnds) ==
  LET l == uniqueLoop({}, 0, count, prefix, config, rnds)
  IN  IF ~l.ok THEN l ELSE Return(l.val.ids)

\* generateUnique with the two count checks of generateMultiple in front
generateUnique_bounded(count, prefix, config, rnds) ==
  IF count <= 0
  THEN Throw(SparkIdError("Count must be greater than 0", "INVALID_COUNT"))
  ELSE IF count > 1000
  THEN Throw(SparkIdError("Count cannot exceed 1000", "COUNT_TOO_LARGE"))
  ELSE LET l == uniqueLoop({}, 0, count, prefix, config, rnds)
       IN  IF ~l.ok THEN l
           ELSE IF Cardinality(l.val.ids) < count
           THEN Throw(SparkIdError(
                  "Failed to generate " \o ToString(count)
                    \o " unique IDs after " \o ToString(count * 10)
                    \o " attempts",
                  "GENERATION_FAILED"))
           ELSE Return(l.val.ids)

generateUnique(count, prefix, config, rnds) ==
  LET l == uniqueLoop({}, 0, count, prefix, config, rnds)
  IN  IF ~l.ok THEN l
      ELSE IF Cardinality(l.val.ids) < count
      THEN Throw(SparkIdError(
             "Failed to generate " \o ToString(count) \o " unique IDs after "
               \o ToString(count * 10) \o " attempts",
             "GENERATION_FAILED"))
      ELSE Return(l.val.ids)

-----------------------------------------------------------------------------
(* The methods of an identifier.  An identifier is the record of id,       *)
(* prefix (<<>> when undefined) and full that the constructor returns.     *)

BYTES_LENGTH == 9

\* equals that folds letter case before it compares
equals_caseFolded(this, other) ==
  LET otherId == IF "t" \in DOMAIN other THEN other.s ELSE other.full
  IN  toLowerCase(this.full) = toLowerCase(otherId)

\* other is a string, [t |-> "string", s |-> ...], or an identifier
equals(this, other) ==
  LET otherId == IF "t" \in DOMAIN other THEN other.s ELSE other.full
  IN  this.full = otherId

\* getEntropyBits that reads the configured entropyBits
getEntropyBits_configured(this) == configOr("entropyBits", NoConfig, 72)

getEntropyBits(this) == BYTES_LENGTH * 8

hasPrefix(this) == this.prefix # <<>>

\* Math.pow(2, n) and 1 / Math.pow(2, n) are kept as the exponent of 2
getStats(this) ==
  LET entropyBits == getEntropyBits(this)
  IN  [entropyBits |-> entropyBits,
       collisionProbability |-> [pow2 |-> 0 - entropyBits],
       maxIds |-> [pow2 |-> entropyBits]]

\* the result object of validate and validateId, from the outcome of isValid
validationResult(checked) ==
  IF ~checked.ok
  THEN [isValid |-> FALSE, error |-> <<checked.err.message>>,
        code |-> <<"VALIDATION_ERROR">>]
  ELSE [isValid |-> checked.val,
        error |-> IF checked.val THEN <<>> ELSE <<"Invalid ID format">>,
        code |-> IF checked.val THEN <<>> ELSE <<"INVALID_FORMAT">>]

validate(this) == Return(validationResult(isValid(JSString(this.full), NoConfig)))

validateId(id, config) == Return(validationResult(isValid(id, config)))

\* new SecureId(undefined, this.prefix)
generateSimilar(this, bytes) ==
  SecureId_constructor(<<>>, this.prefix, NoConfig, bytes)

\* getConfig returns { ...globalConfig }
getConfig == Spread(NoConfig, globalConfig)

-----------------------------------------------------------------------------
(* Input domains.                                                          *)

\* byte values the random source is taken to return
ByteVals == {0, 165, 255}

\* every buffer of n bytes over ByteVals
Buffers(n) == [1..n -> ByteVals]

\* 32 lower-case characters, as in the configuration guide
LowerAlphabet == "abcdefghijklmnopqrstuvwxyz234567"
\* 32 characters with upper-case letters, the custom alphabet of the README
UpperAlphabet == "0123456789ABCDEFGHIJKLMNOPQRSTUV"
\* 31 and 34 characters
ShortAlphabet == "yvndrfg9ejkmcpqxwt2uwxsza345h76"
LongAlphabet == "abcdefghijklmnopqrstuvwxyz23456789"

Alphabets ==
  {DEFAULT_CONFIG.alphabet[1], LowerAlphabet, UpperAlphabet,
   ShortAlphabet, LongAlphabet}

-----------------------------------------------------------------------------
(* Operations on the codec alone.                                          *)

Base32Encode(buffer, alphabet) ==
  /\ inp' = [op |-> "base32Encode", buffer |-> buffer, alphabet |-> alphabet]
  /\ out' = <<base32Encode(buffer, alphabet)>>
  /\ UNCHANGED globalConfig

\* the encoder applied to every buffer of at most MaxBytes bytes
InitCodec ==
  /\ globalConfig = DEFAULT_CONFIG
  /\ \E n \in 0..MaxBytes : \E buffer \in Buffers(n) : \E alphabet \in Alphabets :
       inp = [op |-> "base32Encode", buffer |-> buffer, alphabet |-> alphabet]
  /\ out = <<>>

NextCodec ==
  /\ out = <<>>
  /\ Base32Encode(inp.buffer, inp.alphabet)

SpecCodec == InitCodec /\ [][NextCodec]_vars

-----------------------------------------------------------------------------
(* C4: encoder correctness.                                                *)

\* bit p (0 = most significant bit of the first byte) of the buffer read as
\* one bit string, zero beyond its end
RefBit(buffer, p) ==
  IF p < 8 * Len(buffer)
  THEN (buffer[(p \div 8) + 1] \div (2 ^ (7 - (p % 8)))) % 2
  ELSE 0

\* value of the k-th 5-bit group
RefGroup(buffer, k) ==
  16 * RefBit(buffer, 5 * k) + 8 * RefBit(buffer, 5 * k + 1)
    + 4 * RefBit(buffer, 5 * k + 2) + 2 * RefBit(buffer, 5 * k + 3)
    + RefBit(buffer, 5 * k + 4)

RECURSIVE RefEncodeFrom(_, _, _)
RefEncodeFrom(buffer, alphabet, k) ==
  IF 5 * k >= 8 * Len(buffer) THEN ""
  ELSE charAt(alphabet, RefGroup(buffer, k))
         \o RefEncodeFrom(buffer, alphabet, k + 1)

\* C4: for every buffer of N >= 0 bytes and every 32-character alphabet,
\* base32Encode returns the characters alphabet[v] of the 5-bit groups v of
\* the buffer's most-significant-bit-first bit string, the last group padded
\* on the right with zero bits, ceil(8N/5) characters in all, although the
\* accumulator is a 32-bit value that is never masked.
C4_EncoderCorrect ==
  (inp.op = "base32Encode" /\ out # <<>> /\ Len(inp.alphabet) = 32) =>
    /\ out[1].ok
    /\ out[1].val = RefEncodeFrom(inp.buffer, inp.alphabet, 0)
    /\ Len(out[1].val) = (8 * Len(inp.buffer) + 4) \div 5

\* a 5-byte buffer whose first byte sets the sign bit of the accumulator and
\* whose fifth byte pushes the first one out of the 32-bit accumulator
C4_Witness ==
  /\ inp.op = "base32Encode" /\ out # <<>>
  /\ Len(inp.alphabet) = 32
  /\ Len(inp.buffer) = 5 /\ inp.buffer[1] = 255 /\ inp.buffer[5] = 165
  /\ out[1].ok /\ Len(out[1].val) = 8

-----------------------------------------------------------------------------
(* Validation and parsing applied to every candidate of a bounded domain.  *)

\* characters the candidate strings are made of: a letter of the default
\* alphabet in both cases, a digit outside it, and the separators in use
\* (ValidateConfigs also makes the letter "a" the separator)
CharPool == {"a", "A", "0", "_", "-"}

RECURSIVE StringsOfLen(_)
StringsOfLen(n) ==
  IF n = 0 THEN {""}
  ELSE {s \o c : s \in StringsOfLen(n - 1), c \in CharPool}

\* identifiers quoted by the test suite
LiteralIds == {"698de38kntcz9ja", "USER_698de38kntcz9ja", "A_B_C"}

NonStrings ==
  {[t |-> "object", s |-> "null"], [t |-> "undefined", s |-> "undefined"],
   [t |-> "number", s |-> "123"], [t |-> "object", s |-> "[object Object]"]}

Candidates ==
  {JSString(s) : s \in UNION {StringsOfLen(n) : n \in 0..MaxLen} \cup LiteralIds}
    \cup NonStrings

\* entropyBits values whose length window is 0..1, 1..1, 2..3 and 3..4
ValidateEntropy == {3, 5, 12, 17}

ValidateConfigs ==
  {NoConfig, [alphabet |-> <<ShortAlphabet>>, entropyBits |-> <<12>>]}
    \cup {Spread(Spread([entropyBits |-> <<e>>], a), sp) :
            e \in ValidateEntropy,
            a \in {NoConfig, [alphabet |-> <<UpperAlphabet>>]},
            sp \in {NoConfig, [separator |-> <<"-">>], [separator |-> <<"a">>]}}

Parse(x, config) ==
  /\ inp' = [op |-> "parse", x |-> x, config |-> config]
  /\ out' = <<parse(x, config)>>
  /\ UNCHANGED globalConfig

IsValid(x, config) ==
  /\ inp' = [op |-> "isValid", x |-> x, config |-> config]
  /\ out' = <<isValid(x, config)>>
  /\ UNCHANGED globalConfig

ValidateId(x, config) ==
  /\ inp' = [op |-> "validateId", x |-> x, config |-> config]
  /\ out' = <<validateId(x, config)>>
  /\ UNCHANGED globalConfig

\* new SecureId(x).validate(), for a non-empty string x, which the
\* constructor keeps as id and as full
ValidateWrapped(x) ==
  /\ x.t = "string" /\ x.s # ""
  /\ inp' = [op |-> "validate", x |-> x, config |-> NoConfig,
             this |-> SecureId_constructor(<<x.s>>, <<>>, NoConfig, <<>>).val]
  /\ out' = <<validate(SecureId_constructor(<<x.s>>, <<>>, NoConfig, <<>>).val)>>
  /\ UNCHANGED globalConfig

IsValidRawId(x, config) ==
  /\ inp' = [op |-> "isValidRawId", x |-> x, config |-> config]
  /\ out' = <<Return(isValidRawId(x, config))>>
  /\ UNCHANGED globalConfig

InitValidate ==
  /\ globalConfig = DEFAULT_CONFIG
  /\ \/ \E op \in {"parse", "isValid", "isValidRawId", "validateId"} :
          \E x \in Candidates : \E config \in ValidateConfigs :
            inp = [op |-> op, x |-> x, config |-> config]
     \/ \E x \in Candidates :
          inp = [op |-> "validate", x |-> x, config |-> NoConfig]
  /\ out = <<>>

NextValidate ==
  \/ out = <<>> /\ inp.op = "parse" /\ Parse(inp.x, inp.config)
  \/ out = <<>> /\ inp.op = "isValid" /\ IsValid(inp.x, inp.config)
  \/ out = <<>> /\ inp.op = "isValidRawId" /\ IsValidRawId(inp.x, inp.config)
  \/ out = <<>> /\ inp.op = "validateId" /\ ValidateId(inp.x, inp.config)
  \/ out = <<>> /\ inp.op = "validate" /\ ValidateWrapped(inp.x)

SpecValidate == InitValidate /\ [][NextValidate]_vars

-----------------------------------------------------------------------------
(* What the claims about validation and parsing speak of, stated without   *)
(* the operators of the model: the effective configuration of the call,    *)
(* the separators of a string, its raw segment.                            *)

Called(op) == inp.op = op /\ out # <<>>

EffAlphabet == getConfigValue("alphabet", inp.config)[1]
EffEntropyBits == getConfigValue("entropyBits", inp.config)[1]
EffSeparator == getConfigValue("separator", inp.config)[1]
EffCase == getConfigValue("case", inp.config)[1]

\* c is a member of the alphabet when letter case is ignored
MemberIgnoringCase(c, alphabet) ==
  \E a \in CharsOf(alphabet) : toLowerCase(a) = toLowerCase(c)

\* the positions (1-based) at which the one-character separator occurs in s
SeparatorPositions(s, sep) == {i \in 1..Len(s) : SubSeq(s, i, i) = sep}

FirstSeparator(s, sep) ==
  CHOOSE i \in SeparatorPositions(s, sep) :
    \A j \in SeparatorPositions(s, sep) : i <= j

\* s itself without a separator, else what follows the first separator
RawSegment(s, sep) ==
  IF SeparatorPositions(s, sep) = {} THEN s
  ELSE SubSeq(s, FirstSeparator(s, sep) + 1, Len(s))

PrefixSegment(s, sep) == SubSeq(s, 1, FirstSeparator(s, sep) - 1)

\* the length window of a raw id
InWindow(n, entropyBits) ==
  /\ entropyBits \div 5 <= n
  /\ 5 * n < entropyBits + 5

-----------------------------------------------------------------------------
(* C5: isValidRawId as an equivalence.                                     *)

\* C5: isValidRawId(s, config) is true if and only if s is a non-empty
\* string, floor(entropyBits/5) <= len(s) <= ceil(entropyBits/5), and every
\* character of s is, letter case ignored, a member of the configured
\* alphabet, for every 32-character alphabet in lower or upper case.
C5_RawIdEquivalence ==
  (Called("isValidRawId") /\ Len(EffAlphabet) = 32) =>
    (out[1].val <=>
       /\ inp.x.t = "string"
       /\ inp.x.s # ""
       /\ InWindow(Len(inp.x.s), EffEntropyBits)
       /\ \A c \in CharsOf(inp.x.s) : MemberIgnoringCase(c, EffAlphabet))

-----------------------------------------------------------------------------
(* C6: the shape of a parse result.                                        *)

\* C6: parse(s) returns a result exactly when s holds at most one separator
\* and its raw segment passes isValidRawId; then full = s; without a
\* separator the result has no prefix key and id = full = s; with one
\* separator prefix is what precedes it, whatever it is (empty or longer than
\* maxPrefixLength included), id is what follows it, and
\* prefix + separator + id = s.
C6_ParseShape ==
  (Called("parse") /\ inp.x.t = "string") =>
    LET s == inp.x.s
        n == Cardinality(SeparatorPositions(s, EffSeparator))
    IN  /\ out[1].ok <=>
             (n <= 1 /\ isValidRawId(JSString(RawSegment(s, EffSeparator)), inp.config))
        /\ out[1].ok => out[1].val.full = s
        /\ (out[1].ok /\ n = 0) =>
             /\ DOMAIN out[1].val = {"id", "full"}
             /\ out[1].val.id = s
        /\ (out[1].ok /\ n = 1) =>
             /\ DOMAIN out[1].val = {"prefix", "id", "full"}
             /\ out[1].val.prefix = PrefixSegment(s, EffSeparator)
             /\ out[1].val.id = RawSegment(s, EffSeparator)
             /\ out[1].val.prefix \o EffSeparator \o out[1].val.id = s

\* parse returned a result whose prefix is the empty string
C6_Witness ==
  /\ Called("parse") /\ inp.x.t = "string"
  /\ out[1].ok
  /\ "prefix" \in DOMAIN out[1].val
  /\ out[1].val.prefix = ""
  /\ out[1].val.id # ""

-----------------------------------------------------------------------------
(* C7: the errors of parse.                                                *)

EndsWith(s, suffix) ==
  /\ Len(s) >= Len(suffix)
  /\ SubSeq(s, Len(s) - Len(suffix) + 1, Len(s)) = suffix

-----------------------------------------------------------------------------
(* C8: isValid never raises.                                               *)

\* C8: isValid(x, config) returns for every input x and every configuration,
\* one whose alphabet has not 32 characters included; it returns true exactly
\* when parse(x, config) returns a result and false when parse raises.
C8_IsValidTotal ==
  Called("isValid") =>
    /\ out[1].ok
    /\ out[1].val <=> parse(inp.x, inp.config).ok

\* isValid(null) answered false where parse raises
C8_Witness ==
  /\ Called("isValid")
  /\ inp.x.t # "string"
  /\ ~parse(inp.x, inp.config).ok
  /\ out[1].ok /\ out[1].val = FALSE

-----------------------------------------------------------------------------
(* C9: foreign characters.                                                 *)

Foreign(c) == c # EffSeparator /\ ~MemberIgnoringCase(c, EffAlphabet)

-----------------------------------------------------------------------------
(* Generation applied to every input of a bounded domain.                  *)

\* what randomBytes(n) may return: every buffer over ByteVals for n <= 2, and
\* for longer ones the buffers that alternate two values of ByteVals
RandomBytes(n) ==
  IF n <= 2 THEN Buffers(n)
  ELSE {[i \in 1..n |-> IF i % 2 = 1 THEN a ELSE b] : a, b \in ByteVals}

GenConfigs ==
  {NoConfig,
   [case |-> <<"lower">>], [case |-> <<"mixed">>],
   [alphabet |-> <<UpperAlphabet>>, entropyBits |-> <<16>>],
   [alphabet |-> <<LowerAlphabet>>, entropyBits |-> <<16>>, case |-> <<"mixed">>],
   [alphabet |-> <<ShortAlphabet>>],
   [separator |-> <<"-">>],
   [maxPrefixLength |-> <<3>>]}
    \cup {[entropyBits |-> <<e>>] : e \in 1..MaxEntropyBits}

\* undefined, and prefixes in mixed case, with an underscore, empty, with a
\* hyphen, and of 4, 20 and 21 characters
Prefixes ==
  {<<>>, <<"Tx">>, <<"a_b">>, <<"">>, <<"x-y">>, <<"ABCD">>,
   <<"ABCDEFGHIJ0123456789">>, <<"ABCDEFGHIJ0123456789_">>}

\* The bytes a call takes from the random source.

\* generateRaw calls randomBytes(bytesLength) once, before it encodes
drawnByGenerateRaw(config) == bytesLength(config)

\* generate with the call of generateRaw placed before the prefix check
drawnByGenerate_drawFirst(prefix, config) == drawnByGenerateRaw(config)

\* generate checks the prefix, throws, or goes on to generateRaw
drawnByGenerate(prefix, config) ==
  IF prefix # <<>> /\ ~isValidPrefix(prefix[1], config) THEN 0
  ELSE drawnByGenerateRaw(config)

\* the constructor checks the prefix, throws, or goes on to
\* id || generateRaw(config)
drawnByConstructor(id, prefix, config) ==
  IF prefix # <<>> /\ ~isValidPrefix(prefix[1], config) THEN 0
  ELSE IF id # <<>> /\ id[1] # "" THEN 0
  ELSE drawnByGenerateRaw(config)

GenerateRaw(config, bytes) ==
  /\ Len(bytes) = bytesLength(config)
  /\ inp' = [op |-> "generateRaw", config |-> config, bytes |-> bytes]
  /\ out' = <<generateRaw(config, bytes)>>
  /\ UNCHANGED globalConfig

\* Generate with the override also written to the global configuration
Generate_leaky(prefix, config, bytes) ==
  /\ Len(bytes) = bytesLength(config)
  /\ inp' = [op |-> "generate", prefix |-> prefix, config |-> config,
             bytes |-> bytes, drawn |-> drawnByGenerate(prefix, config)]
  /\ out' = <<generate(prefix, config, bytes)>>
  /\ globalConfig' = Spread(globalConfig, config)

Generate(prefix, config, bytes) ==
  /\ Len(bytes) = bytesLength(config)
  /\ inp' = [op |-> "generate", prefix |-> prefix, config |-> config,
             bytes |-> bytes, drawn |-> drawnByGenerate(prefix, config)]
  /\ out' = <<generate(prefix, config, bytes)>>
  /\ UNCHANGED globalConfig

Create(prefix, config, bytes) ==
  /\ Len(bytes) = bytesLength(config)
  /\ inp' = [op |-> "create", prefix |-> prefix, config |-> config,
             bytes |-> bytes, drawn |-> drawnByConstructor(<<>>, prefix, config)]
  /\ out' = <<create(prefix, config, bytes)>>
  /\ UNCHANGED globalConfig

InitGen ==
  /\ globalConfig = DEFAULT_CONFIG
  /\ \E config \in GenConfigs : \E bytes \in RandomBytes(bytesLength(config)) :
       \/ inp = [op |-> "generateRaw", config |-> config, bytes |-> bytes]
       \/ \E prefix \in Prefixes : \E op \in {"generate", "create"} :
            inp = [op |-> op, prefix |-> prefix, config |-> config,
                   bytes |-> bytes]
  /\ out = <<>>

NextGen ==
  \/ out = <<>> /\ inp.op = "generateRaw" /\ GenerateRaw(inp.config, inp.bytes)
  \/ out = <<>> /\ inp.op = "generate"
       /\ Generate(inp.prefix, inp.config, inp.bytes)
  \/ out = <<>> /\ inp.op = "create"
       /\ Create(inp.prefix, inp.config, inp.bytes)

SpecGen == InitGen /\ [][NextGen]_vars

-----------------------------------------------------------------------------
(* C1, C3: a generated raw id against its own validator and length window. *)

\* C1: for every configuration whose alphabet has 32 characters, every
\* positive entropyBits, every case setting and every buffer the random
\* source returns, isValidRawId(generateRaw(config), config) is true.
C1_RawRoundTrip ==
  (Called("generateRaw") /\ Len(EffAlphabet) = 32 /\ EffEntropyBits > 0) =>
    /\ out[1].ok
    /\ isValidRawId(JSString(out[1].val), inp.config)

\* C3: for every positive entropyBits, a raw id returned by generateRaw,
\* which draws ceil(entropyBits/8) bytes, has a length L with
\* floor(entropyBits/5) <= L <= ceil(entropyBits/5).
C3_LengthBound ==
  (Called("generateRaw") /\ out[1].ok /\ EffEntropyBits > 0) =>
    /\ 8 * (Len(inp.bytes) - 1) < EffEntropyBits
    /\ EffEntropyBits <= 8 * Len(inp.bytes)
    /\ InWindow(Len(out[1].val), EffEntropyBits)

-----------------------------------------------------------------------------
(* C2: prefix round trip.                                                  *)

EffMaxPrefixLength == getConfigValue("maxPrefixLength", inp.config)[1]

\* a non-empty string over [A-Za-z0-9_] within the length bound
PassesPrefixValidation(p) ==
  /\ p # ""
  /\ Len(p) <= EffMaxPrefixLength
  /\ \A c \in CharsOf(p) :
       c \in CharsOf(LowerLetters) \cup CharsOf(UpperLetters)
               \cup CharsOf(Digits) \cup {"_"}

\* C2: for every prefix p that passes prefix validation, one holding an
\* underscore included, parse(generate(p)) succeeds, its prefix is p in the
\* configured case, its id passes isValidRawId, and isValid(generate(p)) is
\* true.
C2_PrefixRoundTrip ==
  (Called("generate") /\ inp.prefix # <<>> /\ PassesPrefixValidation(inp.prefix[1])
     /\ Len(EffAlphabet) = 32) =>
    /\ out[1].ok
    /\ LET parsed == parse(JSString(out[1].val), inp.config)
       IN  /\ parsed.ok
           /\ "prefix" \in DOMAIN parsed.val
           /\ parsed.val.prefix = applyCase(EffCase, inp.prefix[1])
           /\ isValidRawId(JSString(parsed.val.id), inp.config)
    /\ isValid(JSString(out[1].val), inp.config) = Return(TRUE)

-----------------------------------------------------------------------------
(* The library in use: any sequence of calls.                              *)

\* largest count given to generateMultiple and generateUnique, short of the
\* ones beyond the limit
MaxCount == 2

\* the limit of generateMultiple
COUNT_LIMIT == 1000

MainConfigs ==
  {NoConfig, [separator |-> <<"-">>],
   [alphabet |-> <<UpperAlphabet>>, entropyBits |-> <<10>>, case |-> <<"lower">>],
   [entropyBits |-> <<>>, separator |-> <<>>]}

MainPrefixes == {<<>>, <<"Tx">>, <<"x-y">>}

MainCandidates ==
  {JSString("698de38kntcz9ja"), JSString("USER-698de38kntcz9ja"),
   [t |-> "undefined", s |-> "undefined"]}

\* configurations given to the calls that generate many ids
BulkConfigs ==
  {[entropyBits |-> <<8>>],
   [entropyBits |-> <<8>>, separator |-> <<"-">>],
   [entropyBits |-> <<8>>, alphabet |-> <<ShortAlphabet>>]}

BulkPrefixes == {<<"Tx">>, <<"x-y">>}

\* what configure is called with
Partials ==
  {[entropyBits |-> <<10>>, separator |-> <<"-">>],
   [entropyBits |-> <<>>, separator |-> <<>>],
   [alphabet |-> <<ShortAlphabet>>],
   [alphabet |-> <<LongAlphabet>>]}

\* what a caller writes into the object getConfig returned
Writes == {[key |-> "separator", value |-> <<"#">>],
           [key |-> "entropyBits", value |-> <<8>>]}

Counts == {0} \cup 1..MaxCount \cup {COUNT_LIMIT + 1}

\* buffers of one repeated byte
ConstBuffers(n) == {[i \in 1..n |-> b] : b \in {0, 255}}

\* what count calls draw one after the other, from a source that repeats
\* one buffer
Draws(count, n) ==
  IF count > MaxCount THEN {<<>>}
  ELSE {[i \in 1..count |-> b] : b \in ConstBuffers(n)}

\* what the up to 10 * count calls of generateUnique draw: a source that
\* repeats one buffer, and one that changes to another buffer after the
\* first call
UniqueDraws(count, n) ==
  {[i \in 1..(10 * count) |-> IF i <= k THEN [j \in 1..n |-> 0] ELSE [j \in 1..n |-> 255]] :
     k \in {1, 10 * count}}

GenerateMultiple(count, prefix, config, rnds) ==
  /\ inp' = [op |-> "generateMultiple", count |-> count, prefix |-> prefix,
             config |-> config, rnds |-> rnds]
  /\ out' = <<generateMultiple(count, prefix, config, rnds)>>
  /\ UNCHANGED globalConfig

GenerateUnique(count, prefix, config, rnds) ==
  /\ inp' = [op |-> "generateUnique", count |-> count, prefix |-> prefix,
             config |-> config, rnds |-> rnds]
  /\ out' = <<generateUnique(count, prefix, config, rnds)>>
  /\ UNCHANGED globalConfig

\* configure that checks the length of a new alphabet at once
Configure_eager(config) ==
  /\ inp' = [op |-> "configure", config |-> config]
  /\ IF "alphabet" \in DOMAIN config /\ config.alphabet # <<>>
          /\ Len(config.alphabet[1]) # 32
     THEN /\ out' = <<Throw(SparkIdError("Alphabet must have exactly 32 characters",
                                         "INVALID_ALPHABET"))>>
          /\ UNCHANGED globalConfig
     ELSE /\ out' = <<Return(<<>>)>>
          /\ globalConfig' = Spread(globalConfig, config)

Configure(config) ==
  /\ globalConfig' = Spread(globalConfig, config)
  /\ inp' = [op |-> "configure", config |-> config]
  /\ out' = <<Return(<<>>)>>

GetConfig ==
  /\ inp' = [op |-> "getConfig"]
  /\ out' = <<Return(getConfig)>>
  /\ UNCHANGED globalConfig

\* the caller writes returned[key] = value, returned being the very object
\* globalConfig refers to
MutateReturned_aliased(key, value) ==
  /\ inp.op \in {"getConfig", "mutateReturned"}
  /\ out' = <<Return([out[1].val EXCEPT ![key] = value])>>
  /\ inp' = [op |-> "mutateReturned", key |-> key, value |-> value]
  /\ globalConfig' = [globalConfig EXCEPT ![key] = value]

\* the caller writes returned[key] = value, returned being the object the
\* last getConfig returned: { ...globalConfig } is a new object, that
\* neither globalConfig nor DEFAULT_CONFIG refers to
MutateReturned(key, value) ==
  /\ inp.op \in {"getConfig", "mutateReturned"}
  /\ out' = <<Return([out[1].val EXCEPT ![key] = value])>>
  /\ inp' = [op |-> "mutateReturned", key |-> key, value |-> value]
  /\ UNCHANGED globalConfig

\* resetConfig with the spread the other way round: { ...DEFAULT_CONFIG,
\* ...globalConfig }
ResetConfig_keep ==
  /\ globalConfig' = Spread(DEFAULT_CONFIG, globalConfig)
  /\ inp' = [op |-> "resetConfig", previous |-> globalConfig]
  /\ out' = <<Return(<<>>)>>

\* previous records the global configuration the call found
ResetConfig ==
  /\ globalConfig' = Spread(NoConfig, DEFAULT_CONFIG)
  /\ inp' = [op |-> "resetConfig", previous |-> globalConfig]
  /\ out' = <<Return(<<>>)>>

Init ==
  /\ globalConfig = Spread(NoConfig, DEFAULT_CONFIG)
  /\ inp = [op |-> "load"]
  /\ out = <<>>

Next ==
  \/ \E config \in MainConfigs : \E bytes \in ConstBuffers(bytesLength(config)) :
       GenerateRaw(config, bytes)
  \/ \E prefix \in MainPrefixes : \E config \in MainConfigs :
       \E bytes \in ConstBuffers(bytesLength(config)) :
         Generate(prefix, config, bytes)
  \/ \E prefix \in MainPrefixes : \E config \in MainConfigs :
       \E bytes \in ConstBuffers(bytesLength(config)) :
         Create(prefix, config, bytes)
  \/ \E x \in MainCandidates : \E config \in MainConfigs : Parse(x, config)
  \/ \E x \in MainCandidates : \E config \in MainConfigs : IsValid(x, config)
  \/ \E count \in Counts : \E prefix \in BulkPrefixes : \E config \in BulkConfigs :
       \E rnds \in Draws(count, bytesLength(config)) :
         GenerateMultiple(count, prefix, config, rnds)
  \/ \E count \in {1, MaxCount} : \E config \in BulkConfigs :
       \E rnds \in UniqueDraws(count, bytesLength(config)) :
         GenerateUnique(count, <<"Tx">>, config, rnds)
  \/ \E config \in Partials : Configure(config)
  \/ GetConfig
  \/ \E w \in Writes : MutateReturned(w.key, w.value)
  \/ ResetConfig

Spec == Init /\ [][Next]_vars

-----------------------------------------------------------------------------
(* C10: configuration layering.                                            *)

OverrideOps ==
  {"generate", "generateRaw", "create", "parse", "isValid",
   "generateMultiple", "generateUnique"}

ConfigKeys == DOMAIN DEFAULT_CONFIG

\* C10: a call of generate, generateRaw, create, parse, isValid,
\* generateMultiple or generateUnique with a per-call config override leaves
\* the global configuration as it was: getConfig() is the same after the
\* call as before it, and so is every value a later call without override
\* resolves.
C10_OverrideLeavesGlobal ==
  [][(inp'.op \in OverrideOps /\ inp'.config # NoConfig) =>
       /\ globalConfig' = globalConfig
       /\ getConfig' = getConfig
       /\ \A key \in ConfigKeys :
            getConfigValue(key, NoConfig)' = getConfigValue(key, NoConfig)]_vars

\* generate was called with a separator override, joined prefix and id with
\* it, and the global separator is still the default one
C10_Witness ==
  /\ Called("generate")
  /\ inp.config = [separator |-> <<"-">>]
  /\ inp.prefix = <<"Tx">>
  /\ out[1].ok
  /\ SubSeq(out[1].val, 1, 3) = "TX-"
  /\ globalConfig.separator = <<"_">>

-----------------------------------------------------------------------------
(* C11: the three tiers, key by key.                                       *)

\* the keys the operations read
UsedKeys == {"alphabet", "entropyBits", "maxPrefixLength", "separator", "case"}

\* the value the three tiers give a key in the call of the current state
Tier(key) ==
  IF key \in DOMAIN inp.config /\ inp.config[key] # <<>>
  THEN inp.config[key][1]
  ELSE IF globalConfig[key] # <<>> THEN globalConfig[key][1]
  ELSE DEFAULT_CONFIG[key][1]

\* the per-call config that names every key with its tier value
TierConfig == [key \in UsedKeys |-> <<Tier(key)>>]

\* what the call of the current state returns when it is given TierConfig
UnderTierConfig ==
  CASE inp.op = "generateRaw" -> generateRaw(TierConfig, inp.bytes)
    [] inp.op = "generate" -> generate(inp.prefix, TierConfig, inp.bytes)
    [] inp.op = "create" -> create(inp.prefix, TierConfig, inp.bytes)
    [] inp.op = "parse" -> parse(inp.x, TierConfig)
    [] inp.op = "isValid" -> isValid(inp.x, TierConfig)
    [] inp.op = "generateMultiple" ->
         generateMultiple(inp.count, inp.prefix, TierConfig, inp.rnds)
    [] inp.op = "generateUnique" ->
         generateUnique(inp.count, inp.prefix, TierConfig, inp.rnds)

\* C11: in every operation each configuration key is resolved on its own:
\* the per-call value if the key is present and not undefined, else the
\* global value, else the default.  The call draws ceil(entropyBits / 8)
\* bytes for the entropyBits so resolved, returns what it returns when every
\* key is given per call with its resolved value, and generate with a prefix
\* returns the prefix and the encoding of the bytes in the resolved alphabet,
\* both in the resolved case, joined by the resolved separator.
C11_PerKeyResolution ==
  (out # <<>> /\ inp.op \in OverrideOps) =>
    /\ out[1] = UnderTierConfig
    /\ inp.op \in {"generateRaw", "generate", "create"} =>
         Len(inp.bytes) = (Tier("entropyBits") + 7) \div 8
    /\ (inp.op = "generate" /\ out[1].ok /\ inp.prefix # <<>>) =>
         out[1].val =
           applyCase(Tier("case"), inp.prefix[1]) \o Tier("separator")
             \o applyCase(Tier("case"),
                          base32Encode(inp.bytes, Tier("alphabet")).val)

\* generate was called with alphabet, entropyBits and case per call while
\* the global configuration holds another entropyBits and the separator "-":
\* the id is in lower case, encodes two bytes in four characters, and is
\* joined with "-"
C11_Witness ==
  /\ Called("generate")
  /\ inp.config = [alphabet |-> <<UpperAlphabet>>, entropyBits |-> <<10>>,
                   case |-> <<"lower">>]
  /\ inp.prefix = <<"Tx">>
  /\ globalConfig.separator = <<"-">>
  /\ globalConfig.entropyBits = <<10>>
  /\ out[1].ok
  /\ SubSeq(out[1].val, 1, 3) = "tx-"
  /\ Len(out[1].val) = 7

-----------------------------------------------------------------------------
(* C12: reset.                                                             *)

\* the default table as the documentation gives it
DefaultTable ==
  [alphabet |-> <<"yvndrfg9ejkmcpqxwt2uwxsza345h769">>, entropyBits |-> <<72>>,
   length |-> <<>>, maxPrefixLength |-> <<20>>, separator |-> <<"_">>,
   case |-> <<"upper">>, encoding |-> <<"base32">>, timestamp |-> <<FALSE>>,
   machineId |-> <<>>]

\* C12: whatever calls came before, after resetConfig() the global
\* configuration is the default table key for key, a getConfig() that
\* follows returns that table, every key resolves to its default, the
\* default table is what it was, and a second resetConfig() changes nothing.
C12_ResetRestoresDefaults ==
  [][/\ inp'.op = "resetConfig" =>
          /\ getConfig' = DefaultTable
          /\ DEFAULT_CONFIG' = DefaultTable
          /\ \A key \in ConfigKeys :
               getConfigValue(key, NoConfig)' = DefaultTable[key]
     /\ (inp.op = "resetConfig" /\ inp'.op = "getConfig") =>
          out'[1] = Return(DefaultTable)
     /\ (inp.op = "resetConfig" /\ inp'.op = "resetConfig") =>
          globalConfig' = globalConfig]_vars

\* resetConfig found a global configuration with another alphabet, another
\* separator and another entropyBits, and left the default one
C12_Witness ==
  /\ Called("resetConfig")
  /\ Len(inp.previous.alphabet[1]) = 31
  /\ inp.previous.separator = <<"-">>
  /\ inp.previous.entropyBits = <<10>>
  /\ globalConfig = DefaultTable

-----------------------------------------------------------------------------
(* C13: getConfig returns a copy.                                          *)

\* C13: a write to a key of the object getConfig() returned changes neither
\* the global configuration, nor what a later getConfig() returns, nor any
\* value a later generate, create or parse call, with or without a per-call
\* config, resolves from the configuration, which is all that such a call
\* reads of it.
C13_ReturnedCopy ==
  [][/\ inp'.op = "mutateReturned" =>
          /\ globalConfig' = globalConfig
          /\ getConfig' = getConfig
          /\ \A key \in ConfigKeys : \A config \in MainConfigs \cup BulkConfigs :
               getConfigValue(key, config)' = getConfigValue(key, config)
     /\ (inp.op = "mutateReturned" /\ inp'.op = "getConfig") =>
          /\ out'[1].val = globalConfig
          /\ out'[1].val # out[1].val]_vars

\* the caller has written separator and entropyBits of the returned object,
\* which now differs from the global configuration in both
C13_Witness ==
  /\ Called("mutateReturned")
  /\ out[1].val.separator = <<"#">>
  /\ out[1].val.entropyBits = <<8>>
  /\ globalConfig.separator = <<"-">>
  /\ globalConfig.entropyBits = <<10>>

-----------------------------------------------------------------------------
(* The calls that generate many ids, each applied once to drawn inputs.    *)

\* counts below, at and above both limits of generateMultiple
BulkCounts == {-1, 0} \cup 1..MaxCount \cup {COUNT_LIMIT, COUNT_LIMIT + 1}

\* what the calls of generateMultiple draw: every sequence of constant
\* buffers for a small count, one buffer repeated for a large one
BulkDraws(count, n) ==
  IF count < 0 THEN {<<>>}
  ELSE IF count <= MaxCount THEN [1..count -> ConstBuffers(n)]
  ELSE {[i \in 1..count |-> [j \in 1..n |-> 0]]}

\* what the up to 10 * count calls of generateUnique draw: a source that
\* changes to another buffer after the first call, one that changes with
\* the last call the budget allows, and one that never changes
BulkUniqueDraws(count, n) ==
  {[i \in 1..(10 * count) |->
      IF i <= k THEN [j \in 1..n |-> 0] ELSE [j \in 1..n |-> 255]] :
     k \in {1, 10 * count - 1, 10 * count}}

\* counts of generateUnique: none and negative, small, and above the limit
\* of generateMultiple
BulkUniqueCounts == {-1, 0} \cup 1..MaxCount \cup {COUNT_LIMIT + 1}

\* entropy for which more than COUNT_LIMIT ids differ
WideConfig == [entropyBits |-> <<16>>]

\* a source whose i-th buffer is the number i in n bytes
CountingDraws(count, n) ==
  [i \in 1..(10 * count) |->
     [j \in 1..n |-> IF j = n THEN i % 256 ELSE (i \div 256) % 256]]

InitBulk ==
  /\ globalConfig = DEFAULT_CONFIG
  /\ \E prefix \in {<<>>} \cup BulkPrefixes : \E config \in BulkConfigs :
       \/ \E count \in BulkCounts :
            \E rnds \in BulkDraws(count, bytesLength(config)) :
              inp = [op |-> "generateMultiple", count |-> count,
                     prefix |-> prefix, config |-> config, rnds |-> rnds]
       \/ \E count \in BulkUniqueCounts \ {COUNT_LIMIT + 1} :
            \E rnds \in BulkUniqueDraws(count, bytesLength(config)) :
              inp = [op |-> "generateUnique", count |-> count,
                     prefix |-> prefix, config |-> config, rnds |-> rnds]
       \/ \E wide \in {config, WideConfig} :
            inp = [op |-> "generateUnique", count |-> COUNT_LIMIT + 1,
                   prefix |-> prefix, config |-> wide,
                   rnds |-> CountingDraws(COUNT_LIMIT + 1, bytesLength(wide))]
  /\ out = <<>>

NextBulk ==
  \/ out = <<>> /\ inp.op = "generateMultiple"
       /\ GenerateMultiple(inp.count, inp.prefix, inp.config, inp.rnds)
  \/ out = <<>> /\ inp.op = "generateUnique"
       /\ GenerateUnique(inp.count, inp.prefix, inp.config, inp.rnds)

SpecBulk == InitBulk /\ [][NextBulk]_vars

-----------------------------------------------------------------------------
(* C14: the bounds of generateMultiple.                                    *)

\* no prefix, or one that passes prefix validation
ValidPrefixGiven == inp.prefix = <<>> \/ PassesPrefixValidation(inp.prefix[1])

\* what C14 says of a call of generateMultiple
BulkBounds ==
  /\ inp.count <= 0 => (~out[1].ok /\ out[1].err.code = "INVALID_COUNT")
  /\ inp.count > 1000 => (~out[1].ok /\ out[1].err.code = "COUNT_TOO_LARGE")
  /\ (1 <= inp.count /\ inp.count <= 1000) =>
       /\ out[1].ok
       /\ Len(out[1].val) = inp.count
       /\ \A i \in 1..inp.count :
            LET id == generate(inp.prefix, inp.config, inp.rnds[i])
            IN  id.ok /\ out[1].val[i] = id.val

-----------------------------------------------------------------------------
(* C15: generateUnique ends within its budget.                             *)

\* the loop of the generateUnique call of the current state: the ids it
\* collected and the calls of generate it made
UniqueRun == uniqueLoop({}, 0, inp.count, inp.prefix, inp.config, inp.rnds)

\* what C15 says of a call of generateUnique
UniqueWithinBudget ==
  /\ UniqueRun.ok
  /\ UniqueRun.val.attempts <= inp.count * 10
  /\ out[1].ok =>
       /\ Cardinality(out[1].val) = inp.count
       /\ out[1].val \subseteq
            {generate(inp.prefix, inp.config, inp.rnds[i]).val :
               i \in 1..UniqueRun.val.attempts}
  /\ ~out[1].ok =>
       /\ out[1].err.code = "GENERATION_FAILED"
       /\ UniqueRun.val.attempts = inp.count * 10
       /\ Cardinality(UniqueRun.val.ids) < inp.count

-----------------------------------------------------------------------------
(* C16: prefix validation.                                                 *)

\* sub occurs in s
Contains(s, sub) ==
  \E i \in 1..(Len(s) - Len(sub) + 1) : SubSeq(s, i, i + Len(sub) - 1) = sub

\* the call threw an error with the code INVALID_PREFIX
PrefixRejected == ~out[1].ok /\ out[1].err.code = "INVALID_PREFIX"

\* INVALID_PREFIX exactly for a prefix that is empty, too long or holds a
\* character outside [A-Za-z0-9_], none for one of the greatest length
C16_RejectedExactly ==
  (Called("generate") \/ Called("create")) =>
    /\ PrefixRejected <=>
         (inp.prefix # <<>> /\ ~PassesPrefixValidation(inp.prefix[1]))
    /\ (/\ inp.prefix # <<>>
        /\ Len(inp.prefix[1]) = EffMaxPrefixLength
        /\ PREFIX_REGEX_test(inp.prefix[1])) => ~PrefixRejected

\* the error of a rejected prefix quotes the prefix and names the greatest
\* length a prefix may have in this call
C16_ErrorNamesBound ==
  ((Called("generate") \/ Called("create")) /\ PrefixRejected) =>
    /\ Contains(out[1].err.message, "\"" \o inp.prefix[1] \o "\"")
    /\ Contains(out[1].err.message, ToString(EffMaxPrefixLength))

\* C16: generate and the SecureId constructor raise INVALID_PREFIX exactly
\* when the given prefix is the empty string, longer than the effective
\* maxPrefixLength, or holds a character outside [A-Za-z0-9_]; a prefix of
\* exactly maxPrefixLength characters of that set is accepted; the error
\* embeds the offending value and the length bound in force.
C16_PrefixValidation == C16_RejectedExactly /\ C16_ErrorNamesBound

-----------------------------------------------------------------------------
(* C17: the alphabet is checked when it is used.                           *)

EncodingOps == {"generate", "generateRaw", "create", "generateMultiple"}

\* configure({alphabet: a}) succeeds and stores a, whatever its length
ConfigureStoresAlphabet ==
  (inp'.op = "configure" /\ "alphabet" \in DOMAIN inp'.config) =>
    /\ out'[1].ok
    /\ globalConfig'.alphabet = inp'.config.alphabet

\* the call just made raised INVALID_ALPHABET with the length of the
\* effective alphabet in its message, and left the global configuration
RaisedInvalidAlphabet ==
  /\ ~out'[1].ok
  /\ out'[1].err.code = "INVALID_ALPHABET"
  /\ Contains(out'[1].err.message,
              "Got " \o ToString(Len(EffAlphabet')) \o " characters")
  /\ globalConfig' = globalConfig

\* the call just made got past the checks that come before the encoding
ReachesEncoding ==
  /\ inp'.op \in {"generate", "create", "generateMultiple"} =>
       ValidPrefixGiven'
  /\ inp'.op = "generateMultiple" => (1 <= inp'.count /\ inp'.count <= 1000)

\* C17: configure({alphabet: a}) succeeds and stores a for every string a;
\* every later generate, generateRaw, create or generateMultiple call whose
\* effective alphabet has a length other than 32 raises INVALID_ALPHABET
\* with the observed length, returns no id and leaves the global
\* configuration unchanged.
C17_LazyAlphabet ==
  [][/\ ConfigureStoresAlphabet
     /\ (inp'.op \in EncodingOps /\ Len(EffAlphabet') # 32)
          => RaisedInvalidAlphabet]_vars

\* C17, for the calls that reach the encoding: configure({alphabet: a})
\* succeeds and stores a for every string a; every later generate,
\* generateRaw, create or generateMultiple call whose effective alphabet has
\* a length other than 32, whose prefix is absent or valid and, for
\* generateMultiple, whose count is within 1..1000, raises INVALID_ALPHABET
\* with the observed length, returns no id and leaves the global
\* configuration unchanged.
C17_LazyAlphabetAtEncoding ==
  [][/\ ConfigureStoresAlphabet
     /\ (inp'.op \in EncodingOps /\ Len(EffAlphabet') # 32 /\ ReachesEncoding)
          => RaisedInvalidAlphabet]_vars

\* an alphabet of 31 characters was configured, and a generate call without
\* per-call config has raised INVALID_ALPHABET naming the 31
C17_Witness ==
  /\ Called("generate")
  /\ inp.config = NoConfig
  /\ inp.prefix = <<"Tx">>
  /\ globalConfig.alphabet = <<ShortAlphabet>>
  /\ ~out[1].ok
  /\ out[1].err.code = "INVALID_ALPHABET"
  /\ Contains(out[1].err.message, "Got 31 characters")

-----------------------------------------------------------------------------
(* C18: the default alphabet as a one-to-one mapping.                      *)

\* the buffers that differ from the drawn one in their first byte at most
FirstByteVariants == {[inp.bytes EXCEPT ![1] = v] : v \in 0..255}

\* C18: the default alphabet consists of exactly 32 pairwise distinct
\* characters, and under the default configuration two different 9-byte
\* random inputs never encode to the same raw id.
C18_DefaultAlphabetInjective ==
  (Called("generateRaw") /\ inp.config = NoConfig) =>
    /\ Len(EffAlphabet) = 32
    /\ Cardinality(CharsOf(EffAlphabet)) = 32
    /\ Len(inp.bytes) = 9
    /\ \A other \in FirstByteVariants :
         generateRaw(NoConfig, other) = out[1] => other = inp.bytes

-----------------------------------------------------------------------------
(* C19: the case setting 'mixed'.                                          *)

\* C19: with case 'mixed' and the default alphabet, generateRaw returns the
\* encoder output unchanged, that output is in upper case, and it is the raw
\* id that case 'upper' gives for the same random bytes.
C19_MixedIsUpper ==
  (Called("generateRaw") /\ inp.config = [case |-> <<"mixed">>]) =>
    /\ out[1] = base32Encode(inp.bytes, DEFAULT_CONFIG.alphabet[1])
    /\ out[1].ok
    /\ out[1].val = toUpperCase(out[1].val)
    /\ out[1] = generateRaw([case |-> <<"upper">>], inp.bytes)

-----------------------------------------------------------------------------
(* C20: the characters of a generated id.                                  *)

\* the alphabet the test suite holds every generated character against
TestZBase32 == "ybndrfg8ejkmcpqxot1uwisza345h769"

\* C20: under the default configuration every character of every generated
\* id, lower-cased, is a member of the Z-Base32 alphabet
\* 'ybndrfg8ejkmcpqxot1uwisza345h769', whatever bytes the random source
\* returns.
C20_OnlyZBase32 ==
  (/\ Called("generateRaw") \/ (Called("generate") /\ inp.prefix = <<>>)
   /\ inp.config = NoConfig
   /\ out[1].ok) =>
    \A c \in CharsOf(toLowerCase(out[1].val)) : includes(TestZBase32, c)

-----------------------------------------------------------------------------
(* C21: the identifiers the test suite knows as valid.                     *)

\* C21: under the default configuration isValidId('698de38kntcz9ja') is
\* true, parseId('698de38kntcz9ja') returns id and full equal to the input
\* and no prefix, and parseId('USER_698de38kntcz9ja') returns the prefix
\* 'USER', the id '698de38kntcz9ja' and the input as full.
C21_KnownIdsAccepted ==
  (out # <<>> /\ inp.config = NoConfig) =>
    /\ (inp.op = "isValid" /\ inp.x = JSString("698de38kntcz9ja")) =>
         out[1] = Return(TRUE)
    /\ (inp.op = "parse" /\ inp.x = JSString("698de38kntcz9ja")) =>
         out[1] = Return([id |-> "698de38kntcz9ja", full |-> "698de38kntcz9ja"])
    /\ (inp.op = "parse" /\ inp.x = JSString("USER_698de38kntcz9ja")) =>
         out[1] = Return([prefix |-> "USER", id |-> "698de38kntcz9ja",
                          full |-> "USER_698de38kntcz9ja"])

-----------------------------------------------------------------------------
(* An identifier is constructed, the global configuration may change, and  *)
(* a method of the identifier is called.                                   *)

\* the id given to the constructor: none, the one of the test suite, the
\* same in upper case, and the empty string
GivenIds ==
  {<<>>, <<"698de38kntcz9ja">>, <<"698DE38KNTCZ9JA">>, <<"">>}

InstancePrefixes ==
  {<<>>, <<"Tx">>, <<"x-y">>, <<"">>, <<"ABCDEFGHIJ0123456789_">>}

InstanceConfigs ==
  {NoConfig, [case |-> <<"lower">>], [case |-> <<"mixed">>],
   [separator |-> <<"-">>], [maxPrefixLength |-> <<30>>],
   [entropyBits |-> <<10>>]}

\* what configure is called with while the caller holds the identifier
InstancePartials ==
  {[entropyBits |-> <<10>>], [separator |-> <<"-">>, case |-> <<"lower">>]}

\* what equals is called with: strings, and identifiers wrapping them
OtherFulls ==
  {"698de38kntcz9ja", "698DE38KNTCZ9JA", "TX_698de38kntcz9ja",
   "tx_698de38kntcz9ja", "TX_YYYYYYYYYYYYYYY", "ejkmcpqxot1uwisza345h769ybndrfg8"}

Others ==
  {JSString(f) : f \in OtherFulls}
    \cup {SecureId_constructor(<<f>>, <<>>, NoConfig, <<>>).val : f \in OtherFulls}

\* the caller holds the identifier the constructor returned, and may have
\* called configure since
Holding == inp.op \in {"new", "configure"} /\ out # <<>> /\ out[1].ok

\* the constructor call that made the identifier the caller holds
Made == IF inp.op = "new" THEN inp ELSE inp.made

New(id, prefix, config, bytes) ==
  /\ Len(bytes) = bytesLength(config)
  /\ inp' = [op |-> "new", id |-> id, prefix |-> prefix, config |-> config,
             bytes |-> bytes, drawn |-> drawnByConstructor(id, prefix, config)]
  /\ out' = <<SecureId_constructor(id, prefix, config, bytes)>>
  /\ UNCHANGED globalConfig

\* configure, called while the caller holds the identifier, which stays in
\* the caller's hands
ConfigureHolding(config) ==
  /\ Holding
  /\ globalConfig' = Spread(globalConfig, config)
  /\ inp' = [op |-> "configure", config |-> config, made |-> Made]
  /\ UNCHANGED out

Equals(other) ==
  /\ Holding
  /\ inp' = [op |-> "equals", this |-> out[1].val, made |-> Made, other |-> other]
  /\ out' = <<Return(equals(out[1].val, other))>>
  /\ UNCHANGED globalConfig

GetEntropyBits ==
  /\ Holding
  /\ inp' = [op |-> "getEntropyBits", this |-> out[1].val, made |-> Made]
  /\ out' = <<Return(getEntropyBits(out[1].val))>>
  /\ UNCHANGED globalConfig

GetStats ==
  /\ Holding
  /\ inp' = [op |-> "getStats", this |-> out[1].val, made |-> Made]
  /\ out' = <<Return(getStats(out[1].val))>>
  /\ UNCHANGED globalConfig

HasPrefix ==
  /\ Holding
  /\ inp' = [op |-> "hasPrefix", this |-> out[1].val, made |-> Made]
  /\ out' = <<Return(hasPrefix(out[1].val))>>
  /\ UNCHANGED globalConfig

\* validate that hands isValid the config the identifier was made with
Validate_madeConfig ==
  /\ Holding
  /\ inp' = [op |-> "validate", this |-> out[1].val, made |-> Made]
  /\ out' = <<Return(validationResult(
                isValid(JSString(out[1].val.full), Made.config)))>>
  /\ UNCHANGED globalConfig

Validate ==
  /\ Holding
  /\ inp' = [op |-> "validate", this |-> out[1].val, made |-> Made]
  /\ out' = <<validate(out[1].val)>>
  /\ UNCHANGED globalConfig

GenerateSimilar(bytes) ==
  /\ Holding
  /\ Len(bytes) = bytesLength(NoConfig)
  /\ inp' = [op |-> "generateSimilar", this |-> out[1].val, made |-> Made,
             bytes |-> bytes]
  /\ out' = <<generateSimilar(out[1].val, bytes)>>
  /\ UNCHANGED globalConfig

InitInstance ==
  /\ globalConfig = DEFAULT_CONFIG
  /\ \E id \in GivenIds : \E prefix \in InstancePrefixes :
       \E config \in InstanceConfigs :
         \E bytes \in ConstBuffers(bytesLength(config)) :
           inp = [op |-> "new", id |-> id, prefix |-> prefix,
                  config |-> config, bytes |-> bytes]
  /\ out = <<>>

NextInstance ==
  \/ out = <<>> /\ New(inp.id, inp.prefix, inp.config, inp.bytes)
  \/ \E config \in InstancePartials : ConfigureHolding(config)
  \/ \E other \in Others : Equals(other)
  \/ GetEntropyBits
  \/ GetStats
  \/ HasPrefix
  \/ Validate
  \/ \E bytes \in ConstBuffers(bytesLength(NoConfig)) : GenerateSimilar(bytes)

SpecInstance == InitInstance /\ [][NextInstance]_vars

-----------------------------------------------------------------------------
(* C22: equality of identifiers.                                           *)

\* the full string of what equals was given
FullOf(other) == IF "t" \in DOMAIN other THEN other.s ELSE other.full

\* a and b have the same characters at the same places
CharIdentical(a, b) ==
  /\ Len(a) = Len(b)
  /\ \A i \in 1..Len(a) : SubSeq(a, i, i) = SubSeq(b, i, i)

\* C22: a.equals(b) is true if and only if a.full and the full string of b
\* (b itself when b is a string) are character for character identical; no
\* letter case is folded.
C22_EqualsIsIdentity ==
  Called("equals") =>
    /\ out[1].ok
    /\ out[1].val <=> CharIdentical(inp.this.full, FullOf(inp.other))

\* an identifier was compared with its own full in upper case, a string,
\* and is not equal to it
C22_Witness ==
  /\ Called("equals")
  /\ inp.this.full = "698de38kntcz9ja"
  /\ inp.other = JSString("698DE38KNTCZ9JA")
  /\ out[1] = Return(FALSE)

-----------------------------------------------------------------------------
(* C23: generateSimilar.                                                   *)

\* C23: for every identifier x made by create(prefix, config),
\* x.generateSimilar() succeeds and returns an identifier with a newly
\* generated id whose prefix is identical to x.prefix, also when x was made
\* with per-call overrides of case, separator or maxPrefixLength.
C23_SimilarKeepsPrefix ==
  (Called("generateSimilar") /\ inp.made.id = <<>>) =>
    /\ out[1].ok
    /\ out[1].val.prefix = inp.this.prefix
    /\ out[1].val.id = generateRaw(NoConfig, inp.bytes).val

-----------------------------------------------------------------------------
(* C24: the entropy an identifier reports.                                 *)

-----------------------------------------------------------------------------
(* C25: a rejected prefix costs no randomness.                             *)

\* C25: when generate or create is called with a prefix that fails
\* validation, INVALID_PREFIX is raised before the random source is called:
\* the call has drawn no byte.
C25_FailFast ==
  ((Called("generate") \/ Called("create"))
     /\ inp.prefix # <<>> /\ ~PassesPrefixValidation(inp.prefix[1])) =>
    /\ PrefixRejected
    /\ inp.drawn = 0

\* create was called with a prefix that holds a hyphen and nine bytes at
\* hand in the random source: it raised INVALID_PREFIX and drew none
C25_Witness ==
  /\ Called("create")
  /\ inp.prefix = <<"x-y">>
  /\ inp.config = NoConfig
  /\ Len(inp.bytes) = 9
  /\ PrefixRejected
  /\ inp.drawn = 0

-----------------------------------------------------------------------------
(* C26: what every identifier satisfies.                                   *)

\* C26: every identifier the constructor returns, generated or wrapping a
\* non-empty id of the caller, which is kept as it is, has
\* full = prefix + separator + id when a prefix was given and full = id
\* otherwise, prefix being the given prefix in the effective case;
\* hasPrefix() is true exactly when a prefix was given.
C26_IdentifierInvariant ==
  /\ (Called("new") /\ out[1].ok) =>
       LET x == out[1].val
       IN  /\ (inp.id # <<>> /\ inp.id[1] # "") => x.id = inp.id[1]
           /\ x.id # ""
           /\ inp.prefix # <<>> =>
                /\ x.prefix = <<applyCase(Tier("case"), inp.prefix[1])>>
                /\ x.full = x.prefix[1] \o Tier("separator") \o x.id
           /\ inp.prefix = <<>> => (x.prefix = <<>> /\ x.full = x.id)
  /\ Called("hasPrefix") =>
       (out[1].val <=> inp.made.prefix # <<>>)

\* the constructor was given an id and a prefix with the case 'mixed' and
\* has kept both as they are
C26_Witness ==
  /\ Called("new")
  /\ inp.id = <<"698de38kntcz9ja">>
  /\ inp.prefix = <<"Tx">>
  /\ inp.config = [case |-> <<"mixed">>]
  /\ out[1] = Return([id |-> "698de38kntcz9ja", prefix |-> <<"Tx">>,
                      full |-> "Tx_698de38kntcz9ja"])

-----------------------------------------------------------------------------
(* C27: validate reads the global configuration only.                      *)

\* C27: x.validate().isValid equals isValid(x.full) with no per-call config
\* under the global configuration in force when validate() is called,
\* whatever config x was made with and whatever the global configuration
\* was when x was made.
C27_ValidateUsesGlobalOnly ==
  Called("validate") =>
    /\ out[1].ok
    /\ out[1].val.isValid = isValid(JSString(inp.this.full), NoConfig).val

\* an identifier made with the separator "-" per call, valid under the
\* config it was made with, is reported invalid by validate()
C27_Witness ==
  /\ Called("validate")
  /\ inp.made.config = [separator |-> <<"-">>]
  /\ inp.this.full = "TX-YYYYYYYYYYYYYYY"
  /\ globalConfig = DEFAULT_CONFIG
  /\ isValid(JSString(inp.this.full), inp.made.config) = Return(TRUE)
  /\ ~out[1].val.isValid

-----------------------------------------------------------------------------
(* C28: validateId and validate always answer.                             *)

ValidResult == [isValid |-> TRUE, error |-> <<>>, code |-> <<>>]

InvalidResult ==
  [isValid |-> FALSE, error |-> <<"Invalid ID format">>,
   code |-> <<"INVALID_FORMAT">>]

\* C28: validateId(id, config) and validate() never raise and never return
\* the code 'VALIDATION_ERROR': for every input the result is isValid true
\* with error and code undefined, or isValid false with the error
\* 'Invalid ID format' and the code 'INVALID_FORMAT'.
C28_ValidateTotal ==
  (Called("validateId") \/ Called("validate")) =>
    /\ out[1].ok
    /\ out[1].val \in {ValidResult, InvalidResult}
    /\ out[1].val.isValid <=> isValid(inp.x, inp.config).val

\* validateId(undefined), on which parse throws, has answered with
\* INVALID_FORMAT
C28_Witness ==
  /\ Called("validateId")
  /\ inp.x = [t |-> "undefined", s |-> "undefined"]
  /\ ~parse(inp.x, inp.config).ok
  /\ out[1] = Return(InvalidResult)

-----------------------------------------------------------------------------
(* C29: generateUnique checks no count.                                    *)

\* the first call of generate that the generateUnique call of the current
\* state makes when it makes one
FirstAttempt == generate(inp.prefix, inp.config, inp.rnds[1])

C29_WitnessLarge ==
  /\ Called("generateUnique")
  /\ inp.count = COUNT_LIMIT + 1
  /\ inp.prefix = <<"Tx">>
  /\ out[1].ok
  /\ Cardinality(out[1].val) = COUNT_LIMIT + 1

-----------------------------------------------------------------------------
(* C30: resolution never ends undefined.                                   *)

\* the per-call configs an operation may be given, those that set a key to
\* undefined among them
PerCallConfigs == MainConfigs \cup BulkConfigs \cup Partials

====
